---- MODULE Spec2Model ----
(***************************************************************************)
(* A model of the grounding validator (demo/hallucination_prevention.py)   *)
(* and of the semantic chunker (demo/semantic_chunking.py).                *)
(*                                                                         *)
(* A text is a sequence of one-character strings.  An embedding is a       *)
(* sequence of integers.  Each public method is run as a sequence of steps *)
(* (one per function called), and the number of times each function is    *)
(* entered during a call is counted in `calls`.                            *)
(***************************************************************************)
EXTENDS Integers, Sequences, FiniteSets, TLC

VARIABLES
    vpc,                  \* position of the validator call
    entry,                \* the public method that was called
    generated_text,
    reference_text,
    generated_embedding,
    reference_embedding,
    lexical,              \* what detect_hallucination returned in this call
    hallucinated_words,   \* the set detect_hallucination logged
    cosine,               \* what cosine_similarity_check returned in this call
    return_site,          \* the return statement layered_detection left by
    calls,                \* number of entries of each function in this call
    regen_arg,            \* the argument regenerate_text was given
    result,               \* what the public method returned or raised
    cpc,                  \* position of the chunker call
    centry,               \* the chunker method that was called
    min_chunk_size,       \* self.min_chunk_size
    vectorizer,           \* self.vectorizer: the fitted TF-IDF model
    stale,                \* self.vectorizer as it was when the call read it
    sentences,            \* nltk.sent_tokenize(text)
    pos,                  \* sentences consumed by the accumulator loop
    chunks,
    current_chunk,
    tfidf_matrix,
    semantic_chunks,
    outcome,              \* what the chunker method returned or raised
    tpc,                  \* position of each thread of the process
    punkt_installed,      \* the punkt package is in nltk's data directory
    downloads,            \* number of times the package was fetched
    chat_engine,          \* rag._chat_engine: 0 is None, n the n-th engine
    engine_inits,         \* number of runs of _initialize_chat_engine
    engine_local,         \* the engine each thread has built and not stored
    returned              \* the engines get_chat_engine has returned

vvars == <<vpc, entry, generated_text, reference_text, generated_embedding,
           reference_embedding, lexical, hallucinated_words, cosine,
           return_site, calls, regen_arg, result>>

cvars == <<cpc, centry, min_chunk_size, vectorizer, stale, sentences, pos,
           chunks, current_chunk, tfidf_matrix, semantic_chunks, outcome>>

pvars == <<tpc, punkt_installed, downloads, chat_engine, engine_inits,
           engine_local, returned>>

vars == <<vvars, cvars, pvars>>

----------------------------------------------------------------------------
(* Characters and the regular expressions over them.                       *)

UpperCase == <<"A", "B", "C", "D", "E", "F", "G", "H", "I", "J", "K", "L", "M",
               "N", "O", "P", "Q", "R", "S", "T", "U", "V", "W", "X", "Y", "Z">>

LowerCase == <<"a", "b", "c", "d", "e", "f", "g", "h", "i", "j", "k", "l", "m",
               "n", "o", "p", "q", "r", "s", "t", "u", "v", "w", "x", "y", "z">>

Digits == {"0", "1", "2", "3", "4", "5", "6", "7", "8", "9"}

Range(s) == {s[k] : k \in 1..Len(s)}

Letters == Range(UpperCase) \cup Range(LowerCase)

\* str.lower() on one character.
LowerChar(c) ==
    IF c \in Range(UpperCase)
    THEN LowerCase[CHOOSE k \in 1..Len(UpperCase) : UpperCase[k] = c]
    ELSE c

\* str.lower().
Lower(s) == [k \in 1..Len(s) |-> LowerChar(s[k])]

\* The class \w of the re module: letters, digits and the underscore.
IsWordChar(c) == c \in Letters \cup Digits \cup {"_"}

\* \b at the gap before position k of s (k = Len(s) + 1 is the end).
AtBoundary(s, k) ==
    LET before == k > 1 /\ IsWordChar(s[k - 1])
        after  == k <= Len(s) /\ IsWordChar(s[k])
    IN  before # after

\* The end of the longest run of \w characters that starts at position k.
RECURSIVE GreedyEnd(_, _)
GreedyEnd(s, k) ==
    IF k < Len(s) /\ IsWordChar(s[k + 1]) THEN GreedyEnd(s, k + 1) ELSE k

\* re.findall(r'\b\w{least,}\b', s) scanning from position k: the leftmost
\* match is taken, the scan resumes after it.
RECURSIVE FindAllFrom(_, _, _)
FindAllFrom(s, k, least) ==
    IF k > Len(s) THEN <<>>
    ELSE IF IsWordChar(s[k]) /\ AtBoundary(s, k)
              /\ GreedyEnd(s, k) - k + 1 >= least
              /\ AtBoundary(s, GreedyEnd(s, k) + 1)
         THEN <<SubSeq(s, k, GreedyEnd(s, k))>>
                  \o FindAllFrom(s, GreedyEnd(s, k) + 1, least)
         ELSE FindAllFrom(s, k + 1, least)

\* The words of a text without .lower().
WordSetCaseSensitive(text) == Range(FindAllFrom(text, 1, 1))

\* set(re.findall(r'\b\w+\b', text.lower()))
WordSet(text) == Range(FindAllFrom(Lower(text), 1, 1))

----------------------------------------------------------------------------
(* The inputs of the validator.                                            *)

Scenario1Reference ==
    <<"D", "o", "e", ",", " ", "J", ".", " ", "(", "2", "0", "2", "0", ")",
      ".", " ", "E", "x", "a", "m", "p", "l", "e", " ", "c", "i", "t", "a",
      "t", "i", "o", "n", ".">>

Scenario1Generated ==
    <<"T", "h", "i", "s", " ", "i", "s", " ", "s", "u", "p", "p", "o", "r",
      "t", "e", "d", " ", "b", "y", " ">> \o Scenario1Reference

Texts ==
    { <<>>,
      <<"!">>,
      <<"_">>,
      <<"a">>,
      <<"a", "_", "b">>,
      <<"a", " ", "b">>,
      <<"B", ",", " ", "a", ".">>,
      Scenario1Reference,
      Scenario1Generated }

Embeddings ==
    { <<0, 0>>, <<1, 0>>, <<0, 1>>, <<1, 1>>, <<3, 4>>, <<4, 3>>, <<-1, 0>>,
      <<1, 0, 0>> }

----------------------------------------------------------------------------
(* demo/hallucination_prevention.py                                        *)

\* The 0.7 of cosine_similarity_check, in tenths.
SimilarityThresholdTenths == 7

RECURSIVE SumOver(_, _)
SumOver(S, f) ==
    IF S = {} THEN 0
    ELSE LET x == CHOOSE y \in S : TRUE IN f[x] + SumOver(S \ {x}, f)

\* The dot product of two vectors over the same index set.
Dot(a, b) == SumOver(DOMAIN a, [k \in DOMAIN a |-> a[k] * b[k]])

\* cosine_similarity([a], [b])[0][0] < tenths / 10.  sklearn divides each
\* vector by its norm, a zero norm being replaced by 1, and multiplies: the
\* similarity of a zero vector with anything is 0.  With n = |a|^2 |b|^2 > 0
\* and d = a.b the test d / sqrt(n) < t / 10 is decided in integers.
SimilarityBelow(a, b, tenths) ==
    LET d == Dot(a, b)
        n == Dot(a, a) * Dot(b, b)
    IN  IF n = 0 THEN 0 < tenths
        ELSE IF d < 0 THEN TRUE
        ELSE 100 * d * d < tenths * tenths * n

\* check_pairwise_arrays raises ValueError on vectors of different lengths.
Compatible(a, b) == Len(a) = Len(b)

\* keywords - generated_words, the difference taken the wrong way round.
HallucinatedWordsReversed(generated, reference) ==
    WordSet(reference) \ WordSet(generated)

\* detect_hallucination: generated_words - keywords.
HallucinatedWords(generated, reference) ==
    WordSet(generated) \ WordSet(reference)

\* A detector that fires only when no generated word is a keyword.
DetectHallucinationDisjoint(generated, reference) ==
    /\ WordSet(generated) # {}
    /\ WordSet(generated) \cap WordSet(reference) = {}

\* detect_hallucination: whether hallucinated_words is non-empty.
DetectHallucination(generated, reference) ==
    HallucinatedWords(generated, reference) # {}

\* cosine_similarity_check
CosineSimilarityCheck(a, b) == SimilarityBelow(a, b, SimilarityThresholdTenths)

\* A layered_detection that runs both checks before it looks at either.
AfterDetectEager(h) == "cosine"

\* layered_detection after detect_hallucination returned h: the position
\* the call moves to.
AfterDetect(h) == IF h THEN "return33" ELSE "cosine"

\* A layered_detection that drops what cosine_similarity_check returned.
AfterCosineIgnored(h) == "return36"

\* layered_detection after cosine_similarity_check returned h.
AfterCosine(h) == IF h THEN "return35" ELSE "return36"

\* A layered_detection whose first return statement returns False.
LayeredValueSecondOnly(site) == site = "return35"

\* The value layered_detection returns at each of its return statements.
LayeredValue(site) == site \in {"return33", "return35"}

\* regenerate_text
RegenerateText(reference) == reference

\* A prevent_hallucination that regenerates from the rejected text.
RegenerationArgumentGenerated(generated, reference) == generated

\* The argument prevent_hallucination passes to regenerate_text.
RegenerationArgument(generated, reference) == reference

NoCalls == [detect |-> 0, cosine |-> 0, regenerate |-> 0]

NoResult == [kind |-> "none"]

VInit ==
    /\ vpc = "idle"
    /\ entry = "none"
    /\ generated_text = <<>>
    /\ reference_text = <<>>
    /\ generated_embedding = <<>>
    /\ reference_embedding = <<>>
    /\ lexical = "none"
    /\ hallucinated_words = {}
    /\ cosine = "none"
    /\ return_site = "none"
    /\ calls = NoCalls
    /\ regen_arg = <<>>
    /\ result = NoResult

\* A caller enters layered_detection or prevent_hallucination.
Call(method, g, r, ge, re) ==
    /\ vpc' = "detect"
    /\ entry' = method
    /\ generated_text' = g
    /\ reference_text' = r
    /\ generated_embedding' = ge
    /\ reference_embedding' = re
    /\ lexical' = "none"
    /\ hallucinated_words' = {}
    /\ cosine' = "none"
    /\ return_site' = "none"
    /\ calls' = NoCalls
    /\ regen_arg' = <<>>
    /\ result' = NoResult
    /\ UNCHANGED <<cvars, pvars>>

CallLayeredDetection ==
    /\ vpc = "idle"
    /\ cpc = "idle"
    /\ \E g \in Texts, r \in Texts, ge \in Embeddings, re \in Embeddings :
           Call("layered_detection", g, r, ge, re)

CallPreventHallucination ==
    /\ vpc = "idle"
    /\ cpc = "idle"
    /\ \E g \in Texts, r \in Texts, ge \in Embeddings, re \in Embeddings :
           Call("prevent_hallucination", g, r, ge, re)

\* layered_detection line 32: the call of detect_hallucination.
Detect ==
    /\ vpc = "detect"
    /\ LET h == DetectHallucination(generated_text, reference_text)
       IN  /\ lexical' = IF h THEN "hallucinated" ELSE "clean"
           /\ hallucinated_words' =
                  HallucinatedWords(generated_text, reference_text)
           /\ vpc' = AfterDetect(h)
    /\ calls' = [calls EXCEPT !.detect = @ + 1]
    /\ UNCHANGED <<entry, generated_text, reference_text, generated_embedding,
                   reference_embedding, cosine, return_site, regen_arg, result>>
    /\ UNCHANGED <<cvars, pvars>>

\* layered_detection line 34: the call of cosine_similarity_check.
Cosine ==
    /\ vpc = "cosine"
    /\ calls' = [calls EXCEPT !.cosine = @ + 1]
    /\ IF Compatible(generated_embedding, reference_embedding)
       THEN LET h == CosineSimilarityCheck(generated_embedding,
                                           reference_embedding)
            IN  /\ cosine' = IF h THEN "hallucinated" ELSE "clean"
                /\ vpc' = AfterCosine(h)
                /\ result' = result
       ELSE /\ cosine' = "raised"
            /\ vpc' = "done"
            /\ result' = [kind |-> "raise", value |-> "ValueError"]
    /\ UNCHANGED <<entry, generated_text, reference_text, generated_embedding,
                   reference_embedding, lexical, hallucinated_words,
                   return_site, regen_arg>>
    /\ UNCHANGED <<cvars, pvars>>

\* layered_detection returns (lines 33, 35, 36); prevent_hallucination then
\* takes its branch (lines 39-44).
Return ==
    /\ vpc \in {"return33", "return35", "return36"}
    /\ return_site' = vpc
    /\ IF entry = "layered_detection"
       THEN /\ result' = [kind |-> "bool", value |-> LayeredValue(vpc)]
            /\ UNCHANGED <<regen_arg, calls>>
       ELSE IF LayeredValue(vpc)
       THEN LET arg == RegenerationArgument(generated_text, reference_text)
            IN  /\ regen_arg' = arg
                /\ calls' = [calls EXCEPT !.regenerate = @ + 1]
                /\ result' = [kind |-> "text", value |-> RegenerateText(arg)]
       ELSE /\ result' = [kind |-> "text", value |-> generated_text]
            /\ UNCHANGED <<regen_arg, calls>>
    /\ vpc' = "done"
    /\ UNCHANGED <<entry, generated_text, reference_text, generated_embedding,
                   reference_embedding, lexical, hallucinated_words, cosine>>
    /\ UNCHANGED <<cvars, pvars>>

\* The caller has the result; the validator keeps nothing of the call.
Finish ==
    /\ vpc = "done"
    /\ vpc' = "idle"
    /\ entry' = "none"
    /\ generated_text' = <<>>
    /\ reference_text' = <<>>
    /\ generated_embedding' = <<>>
    /\ reference_embedding' = <<>>
    /\ lexical' = "none"
    /\ hallucinated_words' = {}
    /\ cosine' = "none"
    /\ return_site' = "none"
    /\ calls' = NoCalls
    /\ regen_arg' = <<>>
    /\ result' = NoResult
    /\ UNCHANGED <<cvars, pvars>>

VNext ==
    \/ CallLayeredDetection
    \/ CallPreventHallucination
    \/ Detect
    \/ Cosine
    \/ Return
    \/ Finish

----------------------------------------------------------------------------
(* demo/semantic_chunking.py                                               *)

\* The sentences nltk.sent_tokenize can hand to chunk_text.
SentencePool ==
    { <<"A", "b", ".">>,
      <<"c", "d", " ", "e", "f", ".">>,
      <<"I", ".">> }

\* The longest document, in sentences.
MaxSentences == 3

\* The largest min_chunk_size a chunker is constructed with.
MaxMinChunkSize == 6

RECURSIVE SeqsUpTo(_, _)
SeqsUpTo(S, n) ==
    IF n = 0 THEN {<<>>}
    ELSE LET shorter == SeqsUpTo(S, n - 1)
         IN  shorter \cup {Append(d, x) : d \in shorter, x \in S}

Documents == SeqsUpTo(SentencePool, MaxSentences)

\* ' '.join(parts)
RECURSIVE Join(_)
Join(parts) ==
    IF parts = <<>> THEN <<>>
    ELSE IF Len(parts) = 1 THEN parts[1]
    ELSE parts[1] \o <<" ">> \o Join(Tail(parts))

\* An iteration that emits the chunk and does not empty the accumulator.
ChunkStepKeepsAccumulator(acc, sentence, size) ==
    LET grown == Append(acc.current_chunk, sentence)
    IN  IF Len(Join(grown)) >= size
        THEN [chunks |-> Append(acc.chunks, Join(grown)),
              current_chunk |-> grown]
        ELSE [chunks |-> acc.chunks, current_chunk |-> grown]

\* An iteration that emits only a chunk longer than min_chunk_size.
ChunkStepStrict(acc, sentence, size) ==
    LET grown == Append(acc.current_chunk, sentence)
    IN  IF Len(Join(grown)) > size
        THEN [chunks |-> Append(acc.chunks, Join(grown)),
              current_chunk |-> <<>>]
        ELSE [chunks |-> acc.chunks, current_chunk |-> grown]

\* One iteration of the loop of chunk_text (lines 17-20) on the pair of
\* chunks and current_chunk.
ChunkStep(acc, sentence, size) ==
    LET grown == Append(acc.current_chunk, sentence)
    IN  IF Len(Join(grown)) >= size
        THEN [chunks |-> Append(acc.chunks, Join(grown)),
              current_chunk |-> <<>>]
        ELSE [chunks |-> acc.chunks, current_chunk |-> grown]

\* chunk_text after the loop (lines 22-25): the last, possibly short, chunk.
Flushed(acc) ==
    IF acc.current_chunk # <<>>
    THEN Append(acc.chunks, Join(acc.current_chunk))
    ELSE acc.chunks

\* TfidfVectorizer's analyzer: lowercase, then the tokens \b\w\w+\b.
Tokens(chunk) == FindAllFrom(Lower(chunk), 1, 2)

Count(t, tokens) == Cardinality({k \in 1..Len(tokens) : tokens[k] = t})

\* 10 * (ln((1 + n) / (1 + df)) + 1), rounded: the smoothed idf of a term
\* that df of n documents contain.
IdfTable ==
    << <<10>>,
       <<14, 10>>,
       <<17, 13, 10>>,
       <<19, 15, 12, 10>>,
       <<21, 17, 14, 12, 10>>,
       <<23, 18, 16, 13, 12, 10>> >>

Unfitted == [fitted |-> FALSE, vocabulary |-> {}, idf |-> <<>>]

\* TfidfVectorizer.fit: the vocabulary and the idf weights of the documents.
Fit(docs) ==
    LET vocabulary == UNION {Range(Tokens(docs[k])) : k \in 1..Len(docs)}
        df(t) == Cardinality({k \in 1..Len(docs) : t \in Range(Tokens(docs[k]))})
    IN  [fitted |-> TRUE,
         vocabulary |-> vocabulary,
         idf |-> [t \in vocabulary |-> IdfTable[Len(docs)][df(t)]]]

\* fit raises ValueError("empty vocabulary") when no document has a token,
\* before it replaces the vocabulary.
FitFails(docs) ==
    UNION {Range(Tokens(docs[k])) : k \in 1..Len(docs)} = {}

\* TfidfVectorizer.transform: one row of tf * idf per document.  The rows
\* are left unnormalised: cosine_similarity divides each by its norm.
Transform(model, docs) ==
    [k \in 1..Len(docs) |->
        [t \in model.vocabulary |-> Count(t, Tokens(docs[k])) * model.idf[t]]]

\* A vectorizer that is fitted once and only transforms afterwards.
FitTransformKeepsFit(model, docs) == IF model.fitted THEN model ELSE Fit(docs)

\* self.vectorizer after fit_transform(chunks) when it held `model` before.
FitTransform(model, docs) == Fit(docs)

\* The 0.5 of get_semantic_chunks, in tenths.
CoherenceThresholdTenths == 5

\* A test of the similarity of the chunk with its successor alone.
RowBelowAdjacent(matrix, row) ==
    SimilarityBelow(matrix[row], matrix[row + 1], CoherenceThresholdTenths)

\* A test of the row without its diagonal entry.
RowMaxBelowOffDiagonal(matrix, row) ==
    \A col \in 1..Len(matrix) \ {row} :
        SimilarityBelow(matrix[row], matrix[col], CoherenceThresholdTenths)

\* np.max(cosine_sim[row]) < 0.5: every entry of the row is below 0.5.
RowMaxBelow(matrix, row) ==
    \A col \in 1..Len(matrix) :
        SimilarityBelow(matrix[row], matrix[col], CoherenceThresholdTenths)

\* A loop that keeps the chunks that resemble what came before.
RECURSIVE RetainedSimilar(_, _, _)
RetainedSimilar(chs, matrix, k) ==
    IF k = 0 THEN <<>>
    ELSE IF k = 1 \/ ~RowMaxBelow(matrix, k - 1)
         THEN Append(RetainedSimilar(chs, matrix, k - 1), chs[k])
         ELSE RetainedSimilar(chs, matrix, k - 1)

\* The loop of get_semantic_chunks (lines 32-35) up to chunk number k
\* (chunk 1 is the code's i == 0).
RECURSIVE Retained(_, _, _)
Retained(chs, matrix, k) ==
    IF k = 0 THEN <<>>
    ELSE IF k = 1 \/ RowMaxBelow(matrix, k - 1)
         THEN Append(Retained(chs, matrix, k - 1), chs[k])
         ELSE Retained(chs, matrix, k - 1)

NoOutcome == [kind |-> "none"]

\* The locals of a chunker call, before and after it.
NoChunkerCall ==
    /\ cpc = "idle"
    /\ centry = "none"
    /\ stale = Unfitted
    /\ sentences = <<>>
    /\ pos = 0
    /\ chunks = <<>>
    /\ current_chunk = <<>>
    /\ tfidf_matrix = <<>>
    /\ semantic_chunks = <<>>
    /\ outcome = NoOutcome

\* The default of the min_chunk_size parameter of SemanticChunking.
DefaultMinChunkSize == 100

\* SemanticChunking(size)
Constructed(size) ==
    /\ NoChunkerCall
    /\ min_chunk_size = size
    /\ vectorizer = Unfitted

\* chunk_text(text) or get_semantic_chunks(text) is entered; line 12.
CallChunker(method, text) ==
    /\ cpc' = "loop"
    /\ centry' = method
    /\ sentences' = text
    /\ pos' = 0
    /\ chunks' = <<>>
    /\ current_chunk' = <<>>
    /\ UNCHANGED <<min_chunk_size, vectorizer, stale, tfidf_matrix,
                   semantic_chunks, outcome>>
    /\ UNCHANGED <<vvars, pvars>>

CallChunkText ==
    /\ cpc = "idle"
    /\ vpc = "idle"
    /\ \E text \in Documents : CallChunker("chunk_text", text)

CallGetSemanticChunks ==
    /\ cpc = "idle"
    /\ vpc = "idle"
    /\ \E text \in Documents : CallChunker("get_semantic_chunks", text)

\* One iteration of the accumulator loop.
LoopStep ==
    /\ cpc = "loop"
    /\ pos < Len(sentences)
    /\ LET acc == ChunkStep([chunks |-> chunks, current_chunk |-> current_chunk],
                            sentences[pos + 1], min_chunk_size)
       IN  /\ chunks' = acc.chunks
           /\ current_chunk' = acc.current_chunk
    /\ pos' = pos + 1
    /\ UNCHANGED <<cpc, centry, min_chunk_size, vectorizer, stale, sentences,
                   tfidf_matrix, semantic_chunks, outcome>>
    /\ UNCHANGED <<vvars, pvars>>

\* The loop is over: chunk_text flushes the accumulator and returns.
LoopExit ==
    /\ cpc = "loop"
    /\ pos = Len(sentences)
    /\ LET all == Flushed([chunks |-> chunks, current_chunk |-> current_chunk])
       IN  /\ chunks' = all
           /\ IF centry = "chunk_text"
              THEN /\ cpc' = "done"
                   /\ outcome' = [kind |-> "list", value |-> all]
              ELSE /\ cpc' = "fit"
                   /\ outcome' = outcome
    /\ current_chunk' = <<>>
    /\ UNCHANGED <<centry, min_chunk_size, vectorizer, stale, sentences, pos,
                   tfidf_matrix, semantic_chunks>>
    /\ UNCHANGED <<vvars, pvars>>

\* get_semantic_chunks line 29: self.vectorizer.fit_transform(chunks).
FitStep ==
    /\ cpc = "fit"
    /\ stale' = vectorizer
    /\ IF FitFails(chunks)
       THEN /\ cpc' = "done"
            /\ outcome' = [kind |-> "raise", value |-> "ValueError"]
            /\ UNCHANGED <<vectorizer, tfidf_matrix>>
       ELSE /\ cpc' = "filter"
            /\ vectorizer' = FitTransform(vectorizer, chunks)
            /\ tfidf_matrix' = Transform(vectorizer', chunks)
            /\ outcome' = outcome
    /\ UNCHANGED <<centry, min_chunk_size, sentences, pos, chunks,
                   current_chunk, semantic_chunks>>
    /\ UNCHANGED <<vvars, pvars>>

\* get_semantic_chunks lines 30-37: the similarity matrix and the filter.
FilterStep ==
    /\ cpc = "filter"
    /\ semantic_chunks' = Retained(chunks, tfidf_matrix, Len(chunks))
    /\ outcome' = [kind |-> "list", value |-> semantic_chunks']
    /\ cpc' = "done"
    /\ UNCHANGED <<centry, min_chunk_size, vectorizer, stale, sentences, pos,
                   chunks, current_chunk, tfidf_matrix>>
    /\ UNCHANGED <<vvars, pvars>>

\* The caller has the result; only the attributes of the chunker remain.
CFinish ==
    /\ cpc = "done"
    /\ cpc' = "idle"
    /\ centry' = "none"
    /\ stale' = Unfitted
    /\ sentences' = <<>>
    /\ pos' = 0
    /\ chunks' = <<>>
    /\ current_chunk' = <<>>
    /\ tfidf_matrix' = <<>>
    /\ semantic_chunks' = <<>>
    /\ outcome' = NoOutcome
    /\ UNCHANGED <<min_chunk_size, vectorizer>>
    /\ UNCHANGED <<vvars, pvars>>

CNext ==
    \/ CallChunkText
    \/ CallGetSemanticChunks
    \/ LoopStep
    \/ LoopExit
    \/ FitStep
    \/ FilterStep
    \/ CFinish

----------------------------------------------------------------------------
(* The process: threads that construct validators and ask for the chat    *)
(* engine of demo/rag.py.  A thread is switched out between any two reads  *)
(* or writes of the shared state.                                          *)

\* The number of threads of the process.
MaxThreads == 2

Threads == 1..MaxThreads

\* The process with no call in progress.
ProcessAtRest(installed, fetched) ==
    /\ tpc = [t \in Threads |-> "idle"]
    /\ punkt_installed = installed
    /\ downloads = fetched
    /\ chat_engine = 0
    /\ engine_inits = 0
    /\ engine_local = [t \in Threads |-> 0]
    /\ returned = {}

\* HallucinationPrevention() is entered: __init__ reaches nltk.download.
Construct(t) ==
    /\ tpc[t] = "idle"
    /\ tpc' = [tpc EXCEPT ![t] = "status"]
    /\ UNCHANGED <<punkt_installed, downloads, chat_engine, engine_inits,
                   engine_local, returned>>
    /\ UNCHANGED <<vvars, cvars>>

\* nltk.download('punkt') looks for the package: installed, it returns;
\* missing, it goes on to fetch it.
DownloadStatus(t) ==
    /\ tpc[t] = "status"
    /\ tpc' = [tpc EXCEPT ![t] = IF punkt_installed THEN "idle" ELSE "fetch"]
    /\ UNCHANGED <<punkt_installed, downloads, chat_engine, engine_inits,
                   engine_local, returned>>
    /\ UNCHANGED <<vvars, cvars>>

\* nltk.download('punkt') fetches and installs the package; __init__ returns.
DownloadFetch(t) ==
    /\ tpc[t] = "fetch"
    /\ downloads' = downloads + 1
    /\ punkt_installed' = TRUE
    /\ tpc' = [tpc EXCEPT ![t] = "idle"]
    /\ UNCHANGED <<chat_engine, engine_inits, engine_local, returned>>
    /\ UNCHANGED <<vvars, cvars>>

\* get_chat_engine() is entered.
GetChatEngine(t) ==
    /\ tpc[t] = "idle"
    /\ tpc' = [tpc EXCEPT ![t] = "check"]
    /\ UNCHANGED <<punkt_installed, downloads, chat_engine, engine_inits,
                   engine_local, returned>>
    /\ UNCHANGED <<vvars, cvars>>

\* Line 90: if _chat_engine is None.
CheckEngine(t) ==
    /\ tpc[t] = "check"
    /\ tpc' = [tpc EXCEPT ![t] = IF chat_engine = 0 THEN "initialize"
                                 ELSE "return"]
    /\ UNCHANGED <<punkt_installed, downloads, chat_engine, engine_inits,
                   engine_local, returned>>
    /\ UNCHANGED <<vvars, cvars>>

\* Line 91, right-hand side: _initialize_chat_engine() builds a new engine.
InitializeChatEngine(t) ==
    /\ tpc[t] = "initialize"
    /\ engine_inits' = engine_inits + 1
    /\ engine_local' = [engine_local EXCEPT ![t] = engine_inits + 1]
    /\ tpc' = [tpc EXCEPT ![t] = "store"]
    /\ UNCHANGED <<punkt_installed, downloads, chat_engine, returned>>
    /\ UNCHANGED <<vvars, cvars>>

\* Line 91, assignment: _chat_engine = the engine built.
StoreEngine(t) ==
    /\ tpc[t] = "store"
    /\ chat_engine' = engine_local[t]
    /\ engine_local' = [engine_local EXCEPT ![t] = 0]
    /\ tpc' = [tpc EXCEPT ![t] = "return"]
    /\ UNCHANGED <<punkt_installed, downloads, engine_inits, returned>>
    /\ UNCHANGED <<vvars, cvars>>

\* Line 92: return _chat_engine.
ReturnEngine(t) ==
    /\ tpc[t] = "return"
    /\ returned' = returned \cup {chat_engine}
    /\ tpc' = [tpc EXCEPT ![t] = "idle"]
    /\ UNCHANGED <<punkt_installed, downloads, chat_engine, engine_inits,
                   engine_local>>
    /\ UNCHANGED <<vvars, cvars>>

PNext ==
    \E t \in Threads :
        \/ Construct(t)
        \/ DownloadStatus(t)
        \/ DownloadFetch(t)
        \/ GetChatEngine(t)
        \/ CheckEngine(t)
        \/ InitializeChatEngine(t)
        \/ StoreEngine(t)
        \/ ReturnEngine(t)

----------------------------------------------------------------------------
(* The validator and the chunker do not call each other.  Spec runs one    *)
(* validator, constructed, beside a chunker at rest; ChunkerSpec runs a    *)
(* chunker, made with any min_chunk_size up to MaxMinChunkSize, beside a   *)
(* validator at rest; ProcessSpec runs the threads of a fresh process.     *)

Init ==
    /\ VInit
    /\ Constructed(DefaultMinChunkSize)
    /\ ProcessAtRest(TRUE, 1)

Next == VNext

Spec == Init /\ [][Next]_vars

ChunkerInit ==
    /\ VInit
    /\ \E size \in 1..MaxMinChunkSize : Constructed(size)
    /\ ProcessAtRest(TRUE, 0)

ChunkerSpec == ChunkerInit /\ [][CNext]_vars

ProcessInit ==
    /\ VInit
    /\ Constructed(DefaultMinChunkSize)
    /\ ProcessAtRest(FALSE, 0)

ProcessSpec == ProcessInit /\ [][PNext]_vars

----------------------------------------------------------------------------
(* Properties of the validator, checked under Spec.                        *)

IsAlphanumeric(c) == c \in Letters \cup Digits

\* The maximal runs in s of characters of the class InClass.
Runs(s, InClass(_)) ==
    LET starts == {i \in 1..Len(s) :
                      InClass(s[i]) /\ (i = 1 \/ ~InClass(s[i - 1]))}
        ends   == {j \in 1..Len(s) :
                      InClass(s[j]) /\ (j = Len(s) \/ ~InClass(s[j + 1]))}
        EndOf(i) == CHOOSE j \in ends :
                        j >= i /\ \A e \in ends : e >= i => j <= e
    IN  {SubSeq(s, i, EndOf(i)) : i \in starts}

SameWord(u, w) == Lower(u) = Lower(w)

\* Some word of `generated` is no word of `reference`, a word being a
\* maximal run of characters of InClass and case being ignored.
SomeWordUnsupported(generated, reference, InClass(_)) ==
    \E u \in Runs(generated, InClass) :
        \A w \in Runs(reference, InClass) : ~SameWord(u, w)

\* The lower-cased words of a text.
LoweredWords(text) == {Lower(u) : u \in Runs(text, IsWordChar)}

IsZero(a) == \A k \in DOMAIN a : a[k] = 0

\* The cosine of the angle of two non-zero vectors is at least 7/10.
CosineAtLeastThreshold(a, b) ==
    /\ ~IsZero(a)
    /\ ~IsZero(b)
    /\ Dot(a, b) >= 0
    /\ 100 * Dot(a, b) * Dot(a, b) >= 49 * Dot(a, a) * Dot(b, b)

\* The verdict that the return statements of layered_detection stand for.
Verdict ==
    CASE return_site = "return33" -> "LexicallyUngrounded"
      [] return_site = "return35" -> "SemanticallyUngrounded"
      [] return_site = "return36" -> "Grounded"
      [] OTHER -> "none"

Returned == vpc = "done" /\ result.kind # "raise"

\* C1: in a call where the lexical check reported a hallucination the
\* embedding check is never entered, and the embedding check is entered (at
\* most once) only after the lexical check of that call returned "not
\* hallucinated".
C1_ShortCircuit ==
    /\ lexical = "hallucinated" => calls.cosine = 0 /\ cosine = "none"
    /\ calls.cosine > 0 => lexical = "clean" /\ calls.detect = 1
    /\ calls.cosine <= 1

\* A call ended on a lexical hallucination although its embeddings have
\* different lengths: the embedding check, which would have raised, was not
\* entered.
C1_Witness ==
    /\ vpc = "done"
    /\ lexical = "hallucinated"
    /\ result.kind # "raise"
    /\ Len(generated_embedding) # Len(reference_embedding)
    /\ calls.cosine = 0

\* C2: a call of prevent_hallucination that is Grounded never enters
\* regenerate_text and returns generated_text; one that is not Grounded
\* enters regenerate_text exactly once, with reference_text, and returns what
\* it returned, neither check having run a second time.
C2_RegenerateOnce ==
    /\ calls.regenerate <= 1
    /\ (Returned /\ entry = "prevent_hallucination") =>
          /\ calls.detect = 1
          /\ calls.cosine <= 1
          /\ Verdict = "Grounded" =>
                /\ calls.regenerate = 0
                /\ result = [kind |-> "text", value |-> generated_text]
          /\ Verdict # "Grounded" =>
                /\ calls.regenerate = 1
                /\ regen_arg = reference_text
                /\ result = [kind |-> "text", value |-> reference_text]

\* prevent_hallucination regenerated a semantically ungrounded text that
\* differs from the reference.
C2_Witness ==
    /\ Returned
    /\ entry = "prevent_hallucination"
    /\ Verdict = "SemanticallyUngrounded"
    /\ calls.regenerate = 1
    /\ generated_text # reference_text
    /\ result.value = reference_text

\* C3: layered_detection reports Grounded exactly when no generated word is
\* missing from the reference and the cosine similarity is at least 0.7; it
\* reports lexically ungrounded when a word is missing, and semantically
\* ungrounded when none is missing and the similarity is below 0.7.
C3_GroundedIffBoth ==
    Returned =>
        LET missing == LoweredWords(generated_text)
                           \ LoweredWords(reference_text)
            similar == CosineAtLeastThreshold(generated_embedding,
                                              reference_embedding)
        IN  /\ Verdict = "Grounded" <=> (missing = {} /\ similar)
            /\ Verdict = "LexicallyUngrounded" <=> missing # {}
            /\ Verdict = "SemanticallyUngrounded" <=> (missing = {} /\ ~similar)
            /\ entry = "layered_detection" =>
                   result = [kind |-> "bool", value |-> Verdict # "Grounded"]

\* layered_detection returned True for a lexically supported text whose
\* embedding has similarity 0.6 with the reference's.
C3_Witness ==
    /\ Returned
    /\ entry = "layered_detection"
    /\ Verdict = "SemanticallyUngrounded"
    /\ generated_embedding = <<1, 0>>
    /\ reference_embedding = <<3, 4>>
    /\ result.value = TRUE

\* C4, as amended: detect_hallucination returns True exactly when some
\* word of generated_text is no word of reference_text, a word being a
\* maximal run of letters, digits and underscores and case being ignored.
C4_LexicalIffUnsupportedWord ==
    calls.detect = 1 =>
        (lexical = "hallucinated" <=>
            SomeWordUnsupported(generated_text, reference_text, IsWordChar))

\* C4, as claimed: the same, a word being a maximal run of letters and
\* digits (the underscore, like other punctuation, being no part of a word).
C4_AsClaimed ==
    calls.detect = 1 =>
        (lexical = "hallucinated" <=>
            SomeWordUnsupported(generated_text, reference_text,
                                IsAlphanumeric))

\* "a_b" was checked against "a b" and found hallucinated.
C4_Witness ==
    /\ calls.detect = 1
    /\ generated_text = <<"a", "_", "b">>
    /\ reference_text = <<"a", " ", "b">>
    /\ lexical = "hallucinated"

\* C5, as amended: against an empty reference a generated text with at
\* least one word is lexically ungrounded, the unsupported words are all
\* its words, and the embedding check is not entered.
C5_EmptyReference ==
    (calls.detect = 1 /\ reference_text = <<>>
        /\ LoweredWords(generated_text) # {}) =>
            /\ lexical = "hallucinated"
            /\ hallucinated_words = LoweredWords(generated_text)
            /\ calls.cosine = 0
            /\ Returned => Verdict = "LexicallyUngrounded"

\* C5, as claimed: the same of every non-empty generated text.
C5_AsClaimed ==
    (calls.detect = 1 /\ reference_text = <<>> /\ generated_text # <<>>) =>
        /\ lexical = "hallucinated"
        /\ hallucinated_words = LoweredWords(generated_text)
        /\ Returned => Verdict = "LexicallyUngrounded"

\* "B, a." was found lexically ungrounded against the empty reference.
C5_Witness ==
    /\ Returned
    /\ reference_text = <<>>
    /\ generated_text = <<"B", ",", " ", "a", ".">>
    /\ Verdict = "LexicallyUngrounded"
    /\ hallucinated_words = {<<"b">>, <<"a">>}

IsScenario1 ==
    /\ generated_text = Scenario1Generated
    /\ reference_text = Scenario1Reference

\* C6, as amended: on the texts of scenario 1 the words this, is, supported
\* and by are not in the reference, the lexical check reports a
\* hallucination and stage 2 is not run.
C6_Scenario1 ==
    (calls.detect = 1 /\ IsScenario1) =>
        /\ lexical = "hallucinated"
        /\ hallucinated_words =
               { <<"t", "h", "i", "s">>, <<"i", "s">>, <<"b", "y">>,
                 <<"s", "u", "p", "p", "o", "r", "t", "e", "d">> }
        /\ calls.cosine = 0
        /\ Returned => Verdict = "LexicallyUngrounded"

\* C6, as claimed: on the texts of scenario 1 the lexical check reports no
\* hallucination and the validator goes on to stage 2.
C6_AsClaimed ==
    (calls.detect = 1 /\ IsScenario1) =>
        /\ lexical = "clean"
        /\ vpc = "cosine" \/ calls.cosine = 1

\* The validator returned on the texts of scenario 1.
C6_Witness ==
    /\ Returned
    /\ IsScenario1
    /\ Verdict = "LexicallyUngrounded"

\* C7, as claimed: the embedding check, given a vector of zero magnitude,
\* fails with DegenerateVector and returns no Boolean.
C7_AsClaimed ==
    (calls.cosine = 1
        /\ (IsZero(generated_embedding) \/ IsZero(reference_embedding))) =>
            /\ cosine = "raised"
            /\ vpc = "done" =>
                   result = [kind |-> "raise", value |-> "DegenerateVector"]

----------------------------------------------------------------------------
(* Properties of the chunker, checked under ChunkerSpec.                   *)

\* `parts` are the joins of consecutive groups of `sents` that cover it.
RECURSIVE Decomposes(_, _)
Decomposes(parts, sents) ==
    IF parts = <<>> THEN sents = <<>>
    ELSE \E k \in 1..Len(sents) :
            /\ Head(parts) = Join(SubSeq(sents, 1, k))
            /\ Decomposes(Tail(parts), SubSeq(sents, k + 1, Len(sents)))

\* C8: during the loop of chunk_text the emitted chunks followed by the
\* accumulator are the sentences consumed so far, each once and in order,
\* and after it the chunks are all the sentences.
C8_Partition ==
    /\ cpc = "loop" =>
          /\ Len(current_chunk) <= pos
          /\ current_chunk =
                 SubSeq(sentences, pos - Len(current_chunk) + 1, pos)
          /\ Decomposes(chunks,
                        SubSeq(sentences, 1, pos - Len(current_chunk)))
    /\ cpc \in {"fit", "filter", "done"} =>
          /\ current_chunk = <<>>
          /\ Decomposes(chunks, sentences)
    /\ (cpc = "done" /\ centry = "chunk_text") =>
          outcome = [kind |-> "list", value |-> chunks]

\* chunk_text returned two chunks of three sentences.
C8_Witness ==
    /\ cpc = "done"
    /\ centry = "chunk_text"
    /\ Len(sentences) = 3
    /\ Len(chunks) = 2

\* C9, as claimed: a call on a document without sentences ends in an
\* EmptyDocument error.
C9_AsClaimed ==
    (cpc = "done" /\ sentences = <<>>) =>
        outcome = [kind |-> "raise", value |-> "EmptyDocument"]

\* chunk_text as a function of the sentences and min_chunk_size.
RECURSIVE Accumulated(_, _, _)
Accumulated(sents, k, size) ==
    IF k = 0 THEN [chunks |-> <<>>, current_chunk |-> <<>>]
    ELSE ChunkStep(Accumulated(sents, k - 1, size), sents[k], size)

ChunkTextOf(sents, size) == Flushed(Accumulated(sents, Len(sents), size))

\* get_semantic_chunks on a vectorizer that was never fitted.
SemanticChunksOf(sents, size) ==
    LET chs == ChunkTextOf(sents, size)
    IN  IF FitFails(chs)
        THEN [kind |-> "raise", value |-> "ValueError"]
        ELSE [kind |-> "list",
              value |-> Retained(chs, Transform(Fit(chs), chs), Len(chs))]

\* C10: what get_semantic_chunks returns is a function of the document and
\* min_chunk_size of the call, whatever the chunker has chunked before.
C10_NoStateAcrossCalls ==
    (cpc = "done" /\ centry = "get_semantic_chunks") =>
        outcome = SemanticChunksOf(sentences, min_chunk_size)

\* get_semantic_chunks returned two chunks from a vectorizer that an earlier
\* call had fitted to another vocabulary.
C10_Witness ==
    /\ cpc = "done"
    /\ centry = "get_semantic_chunks"
    /\ outcome.kind = "list"
    /\ Len(outcome.value) >= 2
    /\ stale.fitted
    /\ stale.vocabulary # vectorizer.vocabulary

\* The members of seq whose positions are in keep, in order.
RECURSIVE SubsequenceAt(_, _, _)
SubsequenceAt(seq, keep, k) ==
    IF k = 0 THEN <<>>
    ELSE IF k \in keep
         THEN Append(SubsequenceAt(seq, keep, k - 1), seq[k])
         ELSE SubsequenceAt(seq, keep, k - 1)

\* get_semantic_chunks has returned a list.
Filtered ==
    /\ cpc = "done"
    /\ centry = "get_semantic_chunks"
    /\ outcome.kind = "list"

\* `parts` are the joins of consecutive groups of `sents` that cover it,
\* each group below `size` without its last sentence, within the length of
\* that sentence of `size`, and at least `size` long unless it is the last.
RECURSIVE GreedyGroups(_, _, _)
GreedyGroups(parts, sents, size) ==
    IF parts = <<>> THEN sents = <<>>
    ELSE \E k \in 1..Len(sents) :
            /\ Head(parts) = Join(SubSeq(sents, 1, k))
            /\ Len(Join(SubSeq(sents, 1, k - 1))) < size
            /\ Len(Head(parts)) <= size + Len(sents[k])
            /\ Len(parts) > 1 => Len(Head(parts)) >= size
            /\ GreedyGroups(Tail(parts), SubSeq(sents, k + 1, Len(sents)),
                            size)

\* C12: every chunk of chunk_text but the last is at least min_chunk_size
\* long, every chunk without its last sentence is shorter than
\* min_chunk_size, and so no chunk exceeds min_chunk_size by more than its
\* last sentence.
C12_GreedyMinimal ==
    cpc \in {"fit", "filter", "done"} =>
        GreedyGroups(chunks, sentences, min_chunk_size)

\* chunk_text returned a first chunk longer than min_chunk_size and a last
\* chunk shorter than it.
C12_Witness ==
    /\ cpc = "done"
    /\ centry = "chunk_text"
    /\ Len(chunks) >= 2
    /\ Len(chunks[1]) > min_chunk_size
    /\ Len(chunks[Len(chunks)]) < min_chunk_size

\* C13: the semantic output is the Stage-A chunks, in order and unaltered,
\* at the positions i with i the first or with every entry of row i-1 of
\* the similarity matrix below 0.5.
C13_LiteralRule ==
    Filtered =>
        LET keep == {i \in 1..Len(chunks) :
                        \/ i = 1
                        \/ \A col \in 1..Len(chunks) :
                              SimilarityBelow(tfidf_matrix[i - 1],
                                              tfidf_matrix[col],
                                              CoherenceThresholdTenths)}
        IN  /\ semantic_chunks = SubsequenceAt(chunks, keep, Len(chunks))
            /\ outcome.value = semantic_chunks

\* Of three chunks the second, which shares no term with the first, was
\* dropped and the third, which follows a chunk without terms, was kept.
C13_Witness ==
    /\ Filtered
    /\ Len(chunks) = 3
    /\ Dot(tfidf_matrix[1], tfidf_matrix[2]) = 0
    /\ ~IsZero(tfidf_matrix[1])
    /\ IsZero(tfidf_matrix[2])
    /\ outcome.value = <<chunks[1], chunks[3]>>

\* C14: the semantic output is made of Stage-A chunks each of which is the
\* first or has similarity below 0.5 with the chunk before it: no chunk as
\* similar as 0.5 to its predecessor is retained.
C14_NoSimilarSuccessor ==
    Filtered =>
        \E keep \in SUBSET (1..Len(chunks)) :
            /\ outcome.value = SubsequenceAt(chunks, keep, Len(chunks))
            /\ \A i \in keep :
                  \/ i = 1
                  \/ SimilarityBelow(tfidf_matrix[i], tfidf_matrix[i - 1],
                                     CoherenceThresholdTenths)

\* Of three chunks the third, equal to the second, was dropped and the
\* second, which follows a chunk without terms, was kept.
C14_Witness ==
    /\ Filtered
    /\ Len(chunks) = 3
    /\ chunks[2] = chunks[3]
    /\ ~IsZero(tfidf_matrix[2])
    /\ outcome.value = <<chunks[1], chunks[2]>>

\* C15: a chunk after the first is retained exactly when the chunk before
\* it has an all-zero TF-IDF vector, so a document whose chunks all have
\* non-zero vectors yields its first chunk alone.
C15_RetainedIffZeroPredecessor ==
    Filtered =>
        LET keep == {i \in 1..Len(chunks) :
                        i = 1 \/ IsZero(tfidf_matrix[i - 1])}
        IN  /\ outcome.value = SubsequenceAt(chunks, keep, Len(chunks))
            /\ (\A i \in 1..Len(chunks) : ~IsZero(tfidf_matrix[i])) =>
                   outcome.value = <<chunks[1]>>

\* Three chunks with non-zero vectors, the second sharing no term with the
\* others, yielded the first chunk alone.
C15_Witness ==
    /\ Filtered
    /\ Len(chunks) = 3
    /\ \A i \in 1..3 : ~IsZero(tfidf_matrix[i])
    /\ Dot(tfidf_matrix[1], tfidf_matrix[2]) = 0
    /\ Dot(tfidf_matrix[2], tfidf_matrix[3]) = 0
    /\ outcome.value = <<chunks[1]>>

----------------------------------------------------------------------------
(* A property of the validator, checked under Spec.                        *)

\* C16: what prevent_hallucination returns is generated_text or
\* reference_text, and no word of it is missing from reference_text.
C16_ReturnIsGrounded ==
    (Returned /\ entry = "prevent_hallucination") =>
        /\ result.kind = "text"
        /\ result.value \in {generated_text, reference_text}
        /\ ~SomeWordUnsupported(result.value, reference_text, IsWordChar)

\* prevent_hallucination replaced a lexically ungrounded text by the
\* reference.
C16_Witness ==
    /\ Returned
    /\ entry = "prevent_hallucination"
    /\ Verdict = "LexicallyUngrounded"
    /\ generated_text # reference_text
    /\ result.value = reference_text

----------------------------------------------------------------------------
(* Properties of the process, checked under ProcessSpec.                   *)

\* C11, as claimed: the tokenizer resource is fetched at most once, by the
\* first caller, however the constructions interleave.
C11_AsClaimed ==
    downloads + Cardinality({t \in Threads : tpc[t] = "fetch"}) <= 1

\* C17, as claimed: _initialize_chat_engine runs at most once, every call of
\* get_chat_engine returns the same engine, and _chat_engine once set is
\* never replaced.
C17_AsClaimed ==
    /\ [](engine_inits <= 1 /\ Cardinality(returned) <= 1)
    /\ [][chat_engine # 0 => chat_engine' = chat_engine]_vars

====
